---------------------------- MODULE Spec2Model ----------------------------
(***************************************************************************)
(* A model of passage_of_time_mcp.py: the timestamp parser, the interval  *)
(* calculator, the offset calculator and the duration formatter.          *)
(*                                                                         *)
(* Text is modelled as text: a timestamp, a rendered duration or an error  *)
(* message is a TLA+ string, read and written one character at a time.     *)
(* Real-valued quantities (a duration in seconds, the amount given to      *)
(* add_time) are fixed-point numbers counted in ticks, Den ticks to the    *)
(* second.  A datetime is the record                                       *)
(*     [ord    |-> proleptic Gregorian ordinal of its calendar date,       *)
(*      tick   |-> ticks since local midnight,                             *)
(*      utcoff |-> seconds east of UTC of the tzinfo attached to it,       *)
(*      tzname |-> the abbreviation of that tzinfo]                        *)
(* which is what a pytz-localized datetime carries.                        *)
(***************************************************************************)
EXTENDS Integers, Sequences, FiniteSets, TLC

VARIABLES
    now,    \* the wall clock: the instant datetime.now() returns, in whole seconds of Unix time
    call,   \* the tool invocation last served: [op |-> ..., and its arguments]
    ret     \* the payload that invocation returned

vars == <<now, call, ret>>

----------------------------------------------------------------------------
(* Bounds of the model.                                                    *)

\* Ticks per second: the resolution of real-valued inputs.
Den == 2
\* Amounts given to add_time range over -MaxAmount..MaxAmount (in 1/Den steps).
MaxAmount == 2
\* Durations given to format_duration have at most MaxDays whole days.
MaxDays == 2

----------------------------------------------------------------------------
(* Characters and decimal numerals.                                        *)

Ch(s, i) == SubSeq(s, i, i)

Sub(s, i, j) == IF i > j THEN "" ELSE SubSeq(s, i, j)

DigitChars == "0123456789"

\* c is a digit between lo and hi
InRange(c, lo, hi) == \E v \in lo..hi : Ch(DigitChars, v + 1) = c

IsDigit(c) == InRange(c, 0, 9)

DigitVal(c) == CHOOSE v \in 0..9 : Ch(DigitChars, v + 1) = c

AllDigits(s) == \A i \in 1..Len(s) : IsDigit(Ch(s, i))

\* int(s) for a string of decimal digits
RECURSIVE ToInt(_)
ToInt(s) ==
    IF Len(s) = 0 THEN 0
    ELSE ToInt(SubSeq(s, 1, Len(s) - 1)) * 10 + DigitVal(Ch(s, Len(s)))

\* str(n) for n >= 0, as in f"{n}"
RECURSIVE ToStr(_)
ToStr(n) ==
    IF n < 10 THEN Ch(DigitChars, n + 1)
    ELSE ToStr(n \div 10) \o Ch(DigitChars, (n % 10) + 1)

\* text left-padded with zeros to width
RECURSIVE PadText(_, _)
PadText(text, width) == IF Len(text) >= width THEN text ELSE PadText("0" \o text, width)

\* f"{n:0{width}d}" and strftime's zero-padded fields
ZeroPad(n, width) == PadText(ToStr(n), width)

Pad2(n) == ZeroPad(n, 2)

\* strftime's %Y for the four-digit years of the model
Pad4(n) == ZeroPad(n, 4)

\* the least index >= i of character c in s, or 0
RECURSIVE IndexFrom(_, _, _)
IndexFrom(s, c, i) ==
    IF i > Len(s) THEN 0
    ELSE IF Ch(s, i) = c THEN i
    ELSE IndexFrom(s, c, i + 1)

\* the greatest index <= i of character c in s, or 0
RECURSIVE LastIndexUpTo(_, _, _)
LastIndexUpTo(s, c, i) ==
    IF i < 1 THEN 0
    ELSE IF Ch(s, i) = c THEN i
    ELSE LastIndexUpTo(s, c, i - 1)

Contains(s, c) == IndexFrom(s, c, 1) # 0

\* str.strip()
RECURSIVE LStrip(_)
LStrip(s) == IF Len(s) > 0 /\ Ch(s, 1) = " " THEN LStrip(Tail(s)) ELSE s

RECURSIVE RStrip(_)
RStrip(s) ==
    IF Len(s) > 0 /\ Ch(s, Len(s)) = " " THEN RStrip(SubSeq(s, 1, Len(s) - 1)) ELSE s

Strip(s) == RStrip(LStrip(s))

\* str.lstrip("0")
RECURSIVE LStripZero(_)
LStripZero(s) == IF Len(s) > 0 /\ Ch(s, 1) = "0" THEN LStripZero(Tail(s)) ELSE s

----------------------------------------------------------------------------
(* The calendar of datetime.date.                                          *)

SecondsPerMinute == 60
SecondsPerHour == 3600
SecondsPerDay == 86400
DayTicks == SecondsPerDay * Den

IsLeap(y) == (y % 4 = 0) /\ ((y % 100 # 0) \/ (y % 400 = 0))

DaysInMonth(y, m) ==
    IF m = 2 THEN (IF IsLeap(y) THEN 29 ELSE 28)
    ELSE IF m \in {4, 6, 9, 11} THEN 30 ELSE 31

RECURSIVE DaysBeforeMonth(_, _)
DaysBeforeMonth(y, m) ==
    IF m = 1 THEN 0 ELSE DaysBeforeMonth(y, m - 1) + DaysInMonth(y, m - 1)

DaysBeforeYear(y) ==
    (y - 1) * 365 + ((y - 1) \div 4) - ((y - 1) \div 100) + ((y - 1) \div 400)

\* date(y, m, d).toordinal()
Ymd2Ord(y, m, d) == DaysBeforeYear(y) + DaysBeforeMonth(y, m) + d

\* the year an ordinal falls in
YearOf(n) ==
    CHOOSE y \in (n \div 366)..((n \div 365) + 1) :
        DaysBeforeYear(y) < n /\ n <= DaysBeforeYear(y + 1)

\* the month the yday-th day of year y falls in
MonthOfYearDay(y, yday) ==
    CHOOSE m \in 1..12 :
        DaysBeforeMonth(y, m) < yday /\ yday <= DaysBeforeMonth(y, m) + DaysInMonth(y, m)

YmdOfMonth(y, yday, m) == [year |-> y, month |-> m, day |-> yday - DaysBeforeMonth(y, m)]

YmdOfYearDay(y, yday) == YmdOfMonth(y, yday, MonthOfYearDay(y, yday))

YmdOfYear(n, y) == YmdOfYearDay(y, n - DaysBeforeYear(y))

\* date.fromordinal(n): the year, month and day of an ordinal
Ord2Ymd(n) == YmdOfYear(n, YearOf(n))

\* date.weekday(): Monday is 0
Weekday(n) == (n + 6) % 7

DayNames ==
    <<"Monday", "Tuesday", "Wednesday", "Thursday", "Friday", "Saturday", "Sunday">>

DayName(w) == DayNames[w + 1]

MonthNames ==
    <<"January", "February", "March", "April", "May", "June", "July", "August",
      "September", "October", "November", "December">>

MonthName(m) == MonthNames[m]

----------------------------------------------------------------------------
(* Time zones: pytz.timezone, tz.localize and datetime.now(tz).  The zones *)
(* of the model are UTC and America/New_York (the tools' default) under    *)
(* the United States rule in force since 2007: daylight time from 02:00    *)
(* standard time on the second Sunday of March to 02:00 daylight time on   *)
(* the first Sunday of November.                                           *)

ValidZones == {"UTC", "America/New_York"}

EstOffset == -5 * SecondsPerHour
EdtOffset == -4 * SecondsPerHour

\* the first Sunday on or after the ordinal first, and k - 1 weeks on
SundayFrom(first, k) == first + ((6 - Weekday(first)) % 7) + 7 * (k - 1)

\* the ordinal of the k-th Sunday of month m of year y
NthSunday(y, m, k) == SundayFrom(Ymd2Ord(y, m, 1), k)

DstStartOrd(y) == NthSunday(y, 3, 2)
DstEndOrd(y) == NthSunday(y, 11, 1)

\* the wall time (ord, sec) lies from 03:00 on the day start to 00:59:59 on the day end
WallBetween(ord, sec, start, end) ==
    /\ ord > start \/ (ord = start /\ sec >= 3 * SecondsPerHour)
    /\ ord < end \/ (ord = end /\ sec < 1 * SecondsPerHour)

WallIsDstInYear(ord, sec, y) == WallBetween(ord, sec, DstStartOrd(y), DstEndOrd(y))

\* Is the wall time (ord, sec) daylight time under tz.localize(dt), whose
\* is_dst defaults to False?  A wall time the spring gap skips (02:00-02:59)
\* and one the autumn fold repeats (01:00-01:59) both get standard time.
WallIsDst(ord, sec) == WallIsDstInYear(ord, sec, YearOf(ord))

Aware(ord, tick, utcoff, tzname) ==
    [ord |-> ord, tick |-> tick, utcoff |-> utcoff, tzname |-> tzname]

NewYork(ord, tick, is_dst) ==
    IF is_dst THEN Aware(ord, tick, EdtOffset, "EDT") ELSE Aware(ord, tick, EstOffset, "EST")

\* tz.localize(naive): the naive wall time with the zone's tzinfo attached
Localize(zone, ord, tick) ==
    IF zone = "UTC" THEN Aware(ord, tick, 0, "UTC")
    ELSE NewYork(ord, tick, WallIsDst(ord, tick \div Den))

UnixEpochOrd == Ymd2Ord(1970, 1, 1)

\* the Unix time of hour h of the day with ordinal ord, at UTC offset off
UnixOfHour(ord, h, off) == (ord - UnixEpochOrd) * SecondsPerDay + h * SecondsPerHour - off

InstantIsDstInYear(u, y) ==
    /\ UnixOfHour(DstStartOrd(y), 2, EstOffset) <= u
    /\ u < UnixOfHour(DstEndOrd(y), 2, EdtOffset)

\* Is the instant u (Unix seconds) in daylight time?
InstantIsDst(u) ==
    InstantIsDstInYear(u, YearOf(UnixEpochOrd + ((u + EstOffset) \div SecondsPerDay)))

\* the aware datetime whose wall clock reads local seconds since the epoch
AwareAt(local, utcoff, tzname) ==
    Aware(UnixEpochOrd + (local \div SecondsPerDay), (local % SecondsPerDay) * Den,
          utcoff, tzname)

NowInNewYork(u, is_dst) ==
    IF is_dst THEN AwareAt(u + EdtOffset, EdtOffset, "EDT")
    ELSE AwareAt(u + EstOffset, EstOffset, "EST")

\* datetime.now(tz) when the clock reads u
NowIn(zone, u) ==
    IF zone = "UTC" THEN AwareAt(u, 0, "UTC") ELSE NowInNewYork(u, InstantIsDst(u))

\* dt2 - dt1 for aware datetimes, as timedelta.total_seconds() in ticks
AwareDiff(dt2, dt1) ==
    (dt2.ord - dt1.ord) * DayTicks + (dt2.tick - dt1.tick)
        - (dt2.utcoff - dt1.utcoff) * Den

\* the datetime total ticks after midnight of dt's date
AtTicks(dt, total) ==
    Aware(dt.ord + (total \div DayTicks), total % DayTicks, dt.utcoff, dt.tzname)

\* dt + timedelta: wall-clock arithmetic; the tzinfo is carried over unchanged
AddDelta(dt, delta) == AtTicks(dt, dt.tick + delta)

SecondOfDay(dt) == dt.tick \div Den

HourOf(dt) == SecondOfDay(dt) \div SecondsPerHour
MinuteOf(dt) == (SecondOfDay(dt) % SecondsPerHour) \div SecondsPerMinute
SecondOf(dt) == SecondOfDay(dt) % SecondsPerMinute

----------------------------------------------------------------------------
(* datetime.strptime and datetime.strftime.                                *)

\* %m is 1[0-2]|0[1-9]|[1-9]
MonthField(f) ==
    \/ Len(f) = 2 /\ Ch(f, 1) = "1" /\ InRange(Ch(f, 2), 0, 2)
    \/ Len(f) = 2 /\ Ch(f, 1) = "0" /\ InRange(Ch(f, 2), 1, 9)
    \/ Len(f) = 1 /\ InRange(Ch(f, 1), 1, 9)

\* %d is 3[01]|[12]\d|0[1-9]|[1-9]| [1-9]
DayField(f) ==
    \/ Len(f) = 2 /\ Ch(f, 1) = "3" /\ InRange(Ch(f, 2), 0, 1)
    \/ Len(f) = 2 /\ InRange(Ch(f, 1), 1, 2) /\ IsDigit(Ch(f, 2))
    \/ Len(f) = 2 /\ Ch(f, 1) = "0" /\ InRange(Ch(f, 2), 1, 9)
    \/ Len(f) = 1 /\ InRange(Ch(f, 1), 1, 9)
    \/ Len(f) = 2 /\ Ch(f, 1) = " " /\ InRange(Ch(f, 2), 1, 9)

\* %H is 2[0-3]|[0-1]\d|\d
HourField(f) ==
    \/ Len(f) = 2 /\ Ch(f, 1) = "2" /\ InRange(Ch(f, 2), 0, 3)
    \/ Len(f) = 2 /\ InRange(Ch(f, 1), 0, 1) /\ IsDigit(Ch(f, 2))
    \/ Len(f) = 1 /\ IsDigit(Ch(f, 1))

\* %M is [0-5]\d|\d
MinuteField(f) ==
    \/ Len(f) = 2 /\ InRange(Ch(f, 1), 0, 5) /\ IsDigit(Ch(f, 2))
    \/ Len(f) = 1 /\ IsDigit(Ch(f, 1))

\* %S is 6[0-1]|[0-5]\d|\d
SecondField(f) ==
    \/ Len(f) = 2 /\ Ch(f, 1) = "6" /\ InRange(Ch(f, 2), 0, 1)
    \/ Len(f) = 2 /\ InRange(Ch(f, 1), 0, 5) /\ IsDigit(Ch(f, 2))
    \/ Len(f) = 1 /\ IsDigit(Ch(f, 1))

\* the first index >= i of s that holds no space (Len(s) + 1 if none)
RECURSIVE SkipSpaces(_, _)
SkipSpaces(s, i) == IF i <= Len(s) /\ Ch(s, i) = " " THEN SkipSpaces(s, i + 1) ELSE i

NoMatch == [ok |-> FALSE]

\* MakeNaive with the seconds dropped
MakeNaiveToTheMinute(Y, m, d, H, M, S) ==
    IF /\ 1 <= Y /\ 1 <= d /\ d <= DaysInMonth(Y, m)
       /\ H <= 23 /\ M <= 59 /\ S <= 59
    THEN [ok |-> TRUE, ord |-> Ymd2Ord(Y, m, d),
          tick |-> (H * SecondsPerHour + M * SecondsPerMinute) * Den]
    ELSE NoMatch

\* the datetime constructor: the fields strptime found must name a real date and time
MakeNaive(Y, m, d, H, M, S) ==
    IF /\ 1 <= Y /\ 1 <= d /\ d <= DaysInMonth(Y, m)
       /\ H <= 23 /\ M <= 59 /\ S <= 59
    THEN [ok |-> TRUE, ord |-> Ymd2Ord(Y, m, d),
          tick |-> (H * SecondsPerHour + M * SecondsPerMinute + S) * Den]
    ELSE NoMatch

\* the month field ends before the dash at j
MonthEndsAt(s, j) == IF j # 0 /\ MonthField(Sub(s, 6, j - 1)) THEN j ELSE 0

\* "%Y-%m-" at the head of s: the index of the second dash, or 0
DatePrefix(s) ==
    IF Len(s) >= 5 /\ AllDigits(SubSeq(s, 1, 4)) /\ Ch(s, 5) = "-"
    THEN MonthEndsAt(s, IndexFrom(s, "-", 6))
    ELSE 0

\* the day field runs from j + 1 to the end of s
DateAfterPrefix(s, j) ==
    IF j # 0 /\ DayField(Sub(s, j + 1, Len(s)))
    THEN MakeNaive(ToInt(SubSeq(s, 1, 4)), ToInt(Sub(s, 6, j - 1)),
                   ToInt(LStrip(Sub(s, j + 1, Len(s)))), 0, 0, 0)
    ELSE NoMatch

\* datetime.strptime(s, "%Y-%m-%d")
StrptimeDate(s) == DateAfterPrefix(s, DatePrefix(s))

\* the day field ends before the space at sp
DayEndsBefore(sp) == IF sp = 0 THEN 0 ELSE sp - 1

\* where the day field after the dash at j ends: at the first space, unless
\* it is " [1-9]"
DayEnd(s, j) ==
    IF j = 0 \/ j + 1 > Len(s) THEN 0
    ELSE IF Ch(s, j + 1) = " " THEN (IF j + 2 <= Len(s) THEN j + 2 ELSE 0)
    ELSE DayEndsBefore(IndexFrom(s, " ", j + 1))

\* the fields between the dash j, the end of the day dEnd, the start of the
\* hour h0 and the colons c1 and c2
FullFields(s, j, dEnd, h0, c1, c2) ==
    IF /\ c2 # 0
       /\ HourField(Sub(s, h0, c1 - 1))
       /\ MinuteField(Sub(s, c1 + 1, c2 - 1))
       /\ SecondField(Sub(s, c2 + 1, Len(s)))
    THEN MakeNaive(ToInt(SubSeq(s, 1, 4)), ToInt(Sub(s, 6, j - 1)),
                   ToInt(LStrip(Sub(s, j + 1, dEnd))), ToInt(Sub(s, h0, c1 - 1)),
                   ToInt(Sub(s, c1 + 1, c2 - 1)), ToInt(Sub(s, c2 + 1, Len(s))))
    ELSE NoMatch

FullAfterHour(s, j, dEnd, h0, c1) ==
    IF c1 = 0 THEN NoMatch
    ELSE FullFields(s, j, dEnd, h0, c1, IndexFrom(s, ":", c1 + 1))

\* \s+ took the spaces from dEnd + 1 to h0 - 1
FullAfterSpaces(s, j, dEnd, h0) ==
    IF h0 <= dEnd + 1 THEN NoMatch
    ELSE FullAfterHour(s, j, dEnd, h0, IndexFrom(s, ":", h0))

FullAfterDay(s, j, dEnd) ==
    IF dEnd = 0 \/ ~DayField(Sub(s, j + 1, dEnd)) THEN NoMatch
    ELSE FullAfterSpaces(s, j, dEnd, SkipSpaces(s, dEnd + 1))

FullAfterPrefix(s, j) == FullAfterDay(s, j, DayEnd(s, j))

\* datetime.strptime(s, "%Y-%m-%d %H:%M:%S")
StrptimeFull(s) == FullAfterPrefix(s, DatePrefix(s))

FormatYmd(d) == Pad4(d.year) \o "-" \o Pad2(d.month) \o "-" \o Pad2(d.day)

\* dt.strftime("%Y-%m-%d")
FormatDate(dt) == FormatYmd(Ord2Ymd(dt.ord))

FormatSecondOfDay(sec) ==
    Pad2(sec \div SecondsPerHour) \o ":"
        \o Pad2((sec % SecondsPerHour) \div SecondsPerMinute) \o ":"
        \o Pad2(sec % SecondsPerMinute)

\* dt.strftime("%H:%M:%S"): the fraction of a second is dropped
FormatTime(dt) == FormatSecondOfDay(SecondOfDay(dt))

\* dt.strftime("%Y-%m-%d %H:%M:%S")
FormatFull(dt) == FormatDate(dt) \o " " \o FormatTime(dt)

FormatHourMinute(h, minute) ==
    Pad2(IF h % 12 = 0 THEN 12 ELSE h % 12) \o ":" \o Pad2(minute) \o " "
        \o (IF h < 12 THEN "AM" ELSE "PM")

\* dt.strftime("%I:%M %p")
FormatClock12(dt) == FormatHourMinute(HourOf(dt), MinuteOf(dt))

FormatLongYmd(d) == MonthName(d.month) \o " " \o Pad2(d.day) \o ", " \o Pad4(d.year)

\* dt.strftime("%B %d, %Y")
FormatLongDate(dt) == FormatLongYmd(Ord2Ymd(dt.ord))

----------------------------------------------------------------------------
(* parse_standard_timestamp.                                               *)

\* InvalidFormatMessage without the date-only pattern
InvalidFormatMessageOnePattern(stripped) ==
    "Invalid timestamp format: '" \o stripped \o "'. "
        \o "Expected format: 'YYYY-MM-DD HH:MM:SS'. "
        \o "Examples: '2024-01-15 14:30:00'"

InvalidFormatMessage(stripped) ==
    "Invalid timestamp format: '" \o stripped \o "'. "
        \o "Expected format: 'YYYY-MM-DD HH:MM:SS' or 'YYYY-MM-DD'. "
        \o "Examples: '2024-01-15 14:30:00' or '2024-01-15'"

\* the three parts of s around the spaces at k1 < k2
PartsAt(s, k1, k2) ==
    IF k1 = 0 THEN <<>>
    ELSE <<Sub(s, 1, k1 - 1), Sub(s, k1 + 1, k2 - 1), Sub(s, k2 + 1, Len(s))>>

PartsBefore(s, k2) ==
    PartsAt(s, IF k2 <= 1 THEN 0 ELSE LastIndexUpTo(s, " ", k2 - 1), k2)

\* timestamp_str.rsplit(' ', 2) when it makes three parts: <<head, middle, last>>
RSplit2(s) == PartsBefore(s, LastIndexUpTo(s, " ", Len(s)))

\* LenientParts with a trailing token of fewer than 4 characters
LenientPartsUnderFour(parts) ==
    IF Len(parts) = 3 /\ Len(parts[3]) < 4
    THEN StrptimeFull(parts[1] \o " " \o parts[2])
    ELSE NoMatch

LenientParts(parts) ==
    IF Len(parts) = 3 /\ Len(parts[3]) <= 4
    THEN StrptimeFull(parts[1] \o " " \o parts[2])
    ELSE NoMatch

\* the third attempt: a trailing token of at most 4 characters is split off
LenientMatch(s) == LenientParts(RSplit2(s))

\* the attempts in order: the first that matches wins
FirstMatch(full, date, lenient) ==
    IF full.ok THEN full ELSE IF date.ok THEN date ELSE lenient

Parsed(s, timezone, naive) ==
    IF naive.ok
    THEN [ok |-> TRUE, dt |-> Localize(timezone, naive.ord, naive.tick)]
    ELSE [ok |-> FALSE, exc |-> "ValueError", msg |-> InvalidFormatMessage(s)]

ParseStripped(s, timezone) ==
    Parsed(s, timezone, FirstMatch(StrptimeFull(s), StrptimeDate(s), LenientMatch(s)))

\* parse_standard_timestamp with the grammars tried before the timezone is
\* looked up
ParseGrammarFirst(timestamp_str, timezone) ==
    IF ~ParseStripped(Strip(timestamp_str), "UTC").ok
    THEN [ok |-> FALSE, exc |-> "ValueError",
          msg |-> InvalidFormatMessage(Strip(timestamp_str))]
    ELSE IF timezone \notin ValidZones
    THEN [ok |-> FALSE, exc |-> "UnknownTimeZoneError", msg |-> "'" \o timezone \o "'"]
    ELSE ParseStripped(Strip(timestamp_str), timezone)

\* The outcome of parse_standard_timestamp: the localized datetime, or the
\* exception raised (its class and str()).
parse_standard_timestamp(timestamp_str, timezone) ==
    IF timezone \notin ValidZones
    THEN [ok |-> FALSE, exc |-> "UnknownTimeZoneError", msg |-> "'" \o timezone \o "'"]
    ELSE ParseStripped(Strip(timestamp_str), timezone)

----------------------------------------------------------------------------
(* The tools.  Each is an operator from its arguments (and the clock) to   *)
(* the payload it returns.  A payload is a record; a tool that returns a   *)
(* bare string returns it as [text |-> ...].                               *)

\* ", ".join(parts) and " ".join(parts)
RECURSIVE Join(_, _)
Join(parts, sep) ==
    IF Len(parts) = 0 THEN ""
    ELSE IF Len(parts) = 1 THEN parts[1]
    ELSE parts[1] \o sep \o Join(Tail(parts), sep)

\* f"{n} {unit}{'s' if n != 1 else ''}"
Counted(n, unit) == ToStr(n) \o " " \o unit \o (IF n # 1 THEN "s" ELSE "")

\* if n > 0: parts.append(text)
AppendIfPositive(parts, n, text) == IF n > 0 THEN Append(parts, text) ELSE parts

\* AppendSeconds without the rule for an empty list
AppendSecondsIfPositive(parts, secs, text) ==
    IF secs > 0 THEN Append(parts, text) ELSE parts

\* if secs > 0 or not parts: parts.append(text)
AppendSeconds(parts, secs, text) ==
    IF secs > 0 \/ Len(parts) = 0 THEN Append(parts, text) ELSE parts

Abs(x) == IF x < 0 THEN -x ELSE x

\* Components with the hours not reduced to the hours of the day
ComponentsHoursOfTotal(abs_seconds) ==
    [days |-> abs_seconds \div DayTicks,
     hours |-> abs_seconds \div (SecondsPerHour * Den),
     minutes |-> (abs_seconds % (SecondsPerHour * Den)) \div (SecondsPerMinute * Den),
     secs |-> (abs_seconds % (SecondsPerMinute * Den)) \div Den]

\* the days, hours, minutes and seconds of a duration of abs_seconds ticks
Components(abs_seconds) ==
    [days |-> abs_seconds \div DayTicks,
     hours |-> (abs_seconds % DayTicks) \div (SecondsPerHour * Den),
     minutes |-> (abs_seconds % (SecondsPerHour * Den)) \div (SecondsPerMinute * Den),
     secs |-> (abs_seconds % (SecondsPerMinute * Den)) \div Den]

\* Reported with every exception wrapped as unexpected
ReportedAsUnexpected(failure) == "Unexpected error: " \o failure.msg

\* what an except clause reports: str(e) for a ValueError, the
\* "Unexpected error" wrapping for any other exception
Reported(failure) ==
    IF failure.exc = "ValueError" THEN failure.msg
    ELSE "Unexpected error: " \o failure.msg

\* the components time_difference's inner format_timedelta computes
TimedeltaComponents(seconds) ==
    [days |-> seconds \div DayTicks,
     hours |-> (seconds % DayTicks) \div (SecondsPerHour * Den),
     minutes |-> (seconds % (SecondsPerHour * Den)) \div (SecondsPerMinute * Den),
     secs |-> (seconds % (SecondsPerMinute * Den)) \div Den]

TimedeltaParts(c) ==
    AppendSeconds(
        AppendIfPositive(
            AppendIfPositive(
                AppendIfPositive(<<>>, c.days, Counted(c.days, "day")),
                c.hours, Counted(c.hours, "hour")),
            c.minutes, Counted(c.minutes, "minute")),
        c.secs, Counted(c.secs, "second"))

\* time_difference's inner format_timedelta(seconds), seconds >= 0 in ticks
format_timedelta(seconds) == Join(TimedeltaParts(TimedeltaComponents(seconds)), ", ")

\* DifferenceIsNegative with zero taken for negative
DifferenceIsNotPositive(total_seconds) == total_seconds <= 0

\* is_negative = total_seconds < 0
DifferenceIsNegative(total_seconds) == total_seconds < 0

\* DifferenceFormatted with the sign left out
DifferenceFormattedUnsigned(is_negative, formatted) == formatted

\* if is_negative: formatted = f"-{formatted}"
DifferenceFormatted(is_negative, formatted) ==
    IF is_negative THEN "-" \o formatted ELSE formatted

UnitConversions == [seconds |-> 1, minutes |-> SecondsPerMinute,
                    hours |-> SecondsPerHour, days |-> SecondsPerDay]

TimeDifferenceError(message) ==
    [error |-> message, seconds |-> 0,
     formatted |-> "Error parsing timestamps", is_negative |-> FALSE]

\* the payload for a difference of total_seconds ticks
DifferencePayload(total_seconds, is_negative, formatted, unit) ==
    IF unit = "auto"
    THEN [seconds |-> total_seconds, formatted |-> formatted, is_negative |-> is_negative]
    ELSE IF unit \notin DOMAIN UnitConversions
    THEN TimeDifferenceError("Unexpected error: '" \o unit \o "'")
    ELSE [seconds |-> total_seconds, formatted |-> formatted,
          is_negative |-> is_negative,
          requested_unit |-> [num |-> total_seconds, den |-> UnitConversions[unit] * Den]]

DifferenceSigned(total_seconds, is_negative, unit) ==
    DifferencePayload(total_seconds, is_negative,
                      DifferenceFormatted(is_negative, format_timedelta(Abs(total_seconds))),
                      unit)

DifferenceOfSeconds(total_seconds, unit) ==
    DifferenceSigned(total_seconds, DifferenceIsNegative(total_seconds), unit)

\* time_difference once both timestamps went through parse_standard_timestamp
DifferenceOfParsed(p1, p2, unit) ==
    IF ~p1.ok THEN TimeDifferenceError(Reported(p1))
    ELSE IF ~p2.ok THEN TimeDifferenceError(Reported(p2))
    ELSE DifferenceOfSeconds(AwareDiff(p2.dt, p1.dt), unit)

\* time_difference(timestamp1, timestamp2, unit, timezone).  seconds is in
\* ticks; requested_unit is the quotient total_seconds / conversion, kept as
\* a fraction of ticks over ticks.
time_difference(timestamp1, timestamp2, unit, timezone) ==
    DifferenceOfParsed(parse_standard_timestamp(timestamp1, timezone),
                       parse_standard_timestamp(timestamp2, timezone), unit)

TimeSinceError(message) ==
    [error |-> message, seconds |-> 0,
     formatted |-> "Error calculating time since", context |-> "unknown"]

\* SinceContext with the hour's threshold taken inclusively
SinceContextInclusiveHour(seconds, same_date) ==
    IF seconds < 0 THEN "in the future"
    ELSE IF seconds < 60 * Den THEN "just now"
    ELSE IF seconds <= 3600 * Den THEN "earlier"
    ELSE IF seconds < 86400 * Den
         THEN (IF same_date THEN "earlier today" ELSE "yesterday")
    ELSE IF seconds < 172800 * Den THEN "yesterday"
    ELSE IF seconds < 604800 * Den THEN "this week"
    ELSE IF seconds < 2592000 * Den THEN "this month"
    ELSE "a while ago"

\* the contextual description of time_since: seconds in ticks, same_date is
\* dt.date() == now.date()
SinceContext(seconds, same_date) ==
    IF seconds < 0 THEN "in the future"
    ELSE IF seconds < 60 * Den THEN "just now"
    ELSE IF seconds < 3600 * Den THEN "earlier"
    ELSE IF seconds < 86400 * Den
         THEN (IF same_date THEN "earlier today" ELSE "yesterday")
    ELSE IF seconds < 172800 * Den THEN "yesterday"
    ELSE IF seconds < 604800 * Den THEN "this week"
    ELSE IF seconds < 2592000 * Den THEN "this month"
    ELSE "a while ago"

\* SinceFormatted with a difference of zero taken for the future
SinceFormattedStrictlyPast(formatted, seconds) ==
    formatted \o (IF seconds > 0 THEN " ago" ELSE " from now")

\* formatted = diff["formatted"] + (" ago" if seconds >= 0 else " from now")
SinceFormatted(formatted, seconds) ==
    formatted \o (IF seconds >= 0 THEN " ago" ELSE " from now")

\* time_since once time_difference has answered
SinceOfDifference(diff, p, current) ==
    IF "error" \in DOMAIN diff THEN TimeSinceError(diff.error)
    ELSE [seconds |-> diff.seconds,
          formatted |-> SinceFormatted(diff.formatted, diff.seconds),
          context |-> SinceContext(diff.seconds, p.dt.ord = current.ord)]

SinceAt(timestamp, timezone, current) ==
    SinceOfDifference(time_difference(timestamp, FormatFull(current), "auto", timezone),
                      parse_standard_timestamp(timestamp, timezone), current)

\* time_since(timestamp, timezone) when the clock reads clock
time_since(timestamp, timezone, clock) ==
    IF timezone \notin ValidZones
    THEN TimeSinceError("Unexpected error: '" \o timezone \o "'")
    ELSE SinceAt(timestamp, timezone, NowIn(timezone, clock))

\* the microseconds of frac ticks, to the nearest
Microseconds(frac) == (frac * 1000000 * 2 + Den) \div (2 * Den)

IsoFraction(frac) == IF frac = 0 THEN "" ELSE "." \o ZeroPad(Microseconds(frac), 6)

IsoOffset(sign, off) ==
    sign \o Pad2(off \div SecondsPerHour) \o ":"
         \o Pad2((off % SecondsPerHour) \div SecondsPerMinute)

\* dt.isoformat(): microseconds are shown when there are any, then the UTC offset
IsoFormat(dt) ==
    FormatDate(dt) \o "T" \o FormatTime(dt) \o IsoFraction(dt.tick % Den)
        \o IsoOffset(IF dt.utcoff < 0 THEN "-" ELSE "+", Abs(dt.utcoff))

AddTimeError(message) ==
    [error |-> message, result |-> "Error adding time", iso |-> "",
     description |-> "Error calculating result"]

\* the length in seconds of add_time's units (timedelta's keyword arguments)
DeltaUnits == [seconds |-> 1, minutes |-> SecondsPerMinute, hours |-> SecondsPerHour,
               days |-> SecondsPerDay, weeks |-> 7 * SecondsPerDay]

\* Timedelta with a week taken for a day
TimedeltaWeekAsDay(duration, unit) ==
    duration * (IF unit = "weeks" THEN SecondsPerDay ELSE DeltaUnits[unit])

\* timedelta(<unit>=duration), in ticks
Timedelta(duration, unit) == duration * DeltaUnits[unit]

\* DayDescription with the week's bounds taken exclusively
DayDescriptionWithinWeek(result_dt, days_diff) ==
    IF days_diff = 0 THEN "today"
    ELSE IF days_diff = 1 THEN "tomorrow"
    ELSE IF days_diff = -1 THEN "yesterday"
    ELSE IF days_diff > 1 /\ days_diff < 7
         THEN "next " \o DayName(Weekday(result_dt.ord))
    ELSE IF days_diff < -1 /\ days_diff > -7
         THEN "last " \o DayName(Weekday(result_dt.ord))
    ELSE FormatLongDate(result_dt)

\* the day part of add_time's description
DayDescription(result_dt, days_diff) ==
    IF days_diff = 0 THEN "today"
    ELSE IF days_diff = 1 THEN "tomorrow"
    ELSE IF days_diff = -1 THEN "yesterday"
    ELSE IF days_diff > 1 /\ days_diff <= 7
         THEN "next " \o DayName(Weekday(result_dt.ord))
    ELSE IF days_diff < -1 /\ days_diff >= -7
         THEN "last " \o DayName(Weekday(result_dt.ord))
    ELSE FormatLongDate(result_dt)

\* time_desc = result_dt.strftime("%I:%M %p").lstrip("0")
TimeDescription(result_dt) == LStripZero(FormatClock12(result_dt))

\* description = f"{day_desc} at {time_desc}" if not is_date_only else day_desc
Description(is_date_only, day_desc, time_desc) ==
    IF ~is_date_only THEN day_desc \o " at " \o time_desc ELSE day_desc

\* ResultText always in the full format
ResultTextAlwaysFull(is_date_only, result_dt) == FormatFull(result_dt)

\* the result text, in the shape of the input
ResultText(is_date_only, result_dt) ==
    IF is_date_only THEN FormatDate(result_dt) ELSE FormatFull(result_dt)

\* is_date_only = ":" not in timestamp
IsDateOnly(timestamp) == ~Contains(timestamp, ":")

AddTimePayload(is_date_only, result_dt, current) ==
    [result |-> ResultText(is_date_only, result_dt),
     iso |-> IsoFormat(result_dt),
     description |-> Description(is_date_only,
                                 DayDescription(result_dt, result_dt.ord - current.ord),
                                 TimeDescription(result_dt))]

\* add_time once the timestamp went through parse_standard_timestamp
AddToParsed(p, timestamp, duration, unit, current) ==
    IF ~p.ok THEN AddTimeError(Reported(p))
    ELSE IF unit \notin DOMAIN DeltaUnits THEN AddTimeError("Invalid unit: " \o unit)
    ELSE AddTimePayload(IsDateOnly(timestamp), AddDelta(p.dt, Timedelta(duration, unit)),
                        current)

\* add_time(timestamp, duration, unit, timezone) when the clock reads clock;
\* duration is in ticks (duration / Den units)
add_time(timestamp, duration, unit, timezone, clock) ==
    IF timezone \notin ValidZones
    THEN AddTimeError("Unexpected error: '" \o timezone \o "'")
    ELSE AddToParsed(parse_standard_timestamp(timestamp, timezone), timestamp,
                     duration, unit, NowIn(timezone, clock))

\* The seconds argument of format_duration: a number (in ticks) or a text.
Number(ticks) == [num |-> ticks]
Text(string) == [txt |-> string]

\* float(seconds): the number itself, the number a digit string spells, or a ValueError
ToFloat(seconds) ==
    IF "num" \in DOMAIN seconds THEN [ok |-> TRUE, ticks |-> seconds.num]
    ELSE IF Len(seconds.txt) > 0 /\ AllDigits(seconds.txt)
    THEN [ok |-> TRUE, ticks |-> ToInt(seconds.txt) * Den]
    ELSE [ok |-> FALSE,
          msg |-> "could not convert string to float: '" \o seconds.txt \o "'"]

RenderFull(c) ==
    Join(AppendSeconds(
             AppendIfPositive(
                 AppendIfPositive(
                     AppendIfPositive(<<>>, c.days, Counted(c.days, "day")),
                     c.hours, Counted(c.hours, "hour")),
                 c.minutes, Counted(c.minutes, "minute")),
             c.secs, Counted(c.secs, "second")),
         ", ")

RenderCompact(c) ==
    Join(AppendSeconds(
             AppendIfPositive(
                 AppendIfPositive(
                     AppendIfPositive(<<>>, c.days, ToStr(c.days) \o "d"),
                     c.hours, ToStr(c.hours) \o "h"),
                 c.minutes, ToStr(c.minutes) \o "m"),
             c.secs, ToStr(c.secs) \o "s"),
         " ")

\* RenderMinimal with the minutes after the hours not padded
RenderMinimalUnpadded(c) ==
    IF c.days > 0
    THEN ToStr(c.days) \o ":" \o Pad2(c.hours) \o ":" \o Pad2(c.minutes) \o ":" \o Pad2(c.secs)
    ELSE IF c.hours > 0
    THEN ToStr(c.hours) \o ":" \o ToStr(c.minutes) \o ":" \o Pad2(c.secs)
    ELSE ToStr(c.minutes) \o ":" \o Pad2(c.secs)

RenderMinimal(c) ==
    IF c.days > 0
    THEN ToStr(c.days) \o ":" \o Pad2(c.hours) \o ":" \o Pad2(c.minutes) \o ":" \o Pad2(c.secs)
    ELSE IF c.hours > 0
    THEN ToStr(c.hours) \o ":" \o Pad2(c.minutes) \o ":" \o Pad2(c.secs)
    ELSE ToStr(c.minutes) \o ":" \o Pad2(c.secs)

\* DurationIsNegative with zero taken for negative
DurationIsNotPositive(seconds) == seconds <= 0

\* is_negative = seconds < 0
DurationIsNegative(seconds) == seconds < 0

\* return f"-{result}" if is_negative else result
Signed(is_negative, result) == IF is_negative THEN "-" \o result ELSE result

InvalidDurationText(message) ==
    [text |-> "Error: Invalid input. Seconds must be a number. " \o message]

\* the rendering of the components c in a style
Rendered(is_negative, c, style) ==
    IF style = "full" THEN [text |-> Signed(is_negative, RenderFull(c))]
    ELSE IF style = "compact" THEN [text |-> Signed(is_negative, RenderCompact(c))]
    ELSE IF style = "minimal" THEN [text |-> Signed(is_negative, RenderMinimal(c))]
    ELSE InvalidDurationText("Invalid style: " \o style
                                \o ". Must be 'full', 'compact', or 'minimal'")

\* format_duration once float(seconds) has answered
DurationOfFloat(f, style) ==
    IF ~f.ok THEN InvalidDurationText(f.msg)
    ELSE Rendered(DurationIsNegative(f.ticks), Components(Abs(f.ticks)), style)

\* format_duration(seconds, style)
format_duration(seconds, style) == DurationOfFloat(ToFloat(seconds), style)

----------------------------------------------------------------------------
(* current_datetime, parse_timestamp and timestamp_context.                *)

\* the text current_datetime returns for a zone pytz does not know
UnknownTimezoneText(timezone) ==
    "Error: Unknown timezone '" \o timezone
        \o "'. Please use a valid timezone name like 'UTC', 'US/Pacific', or 'Europe/London'."

\* now.strftime("%Y-%m-%d %H:%M:%S %Z")
FormatWithZone(dt) == FormatFull(dt) \o " " \o dt.tzname

\* current_datetime(timezone) when the clock reads clock
current_datetime(timezone, clock) ==
    IF timezone \notin ValidZones THEN [text |-> UnknownTimezoneText(timezone)]
    ELSE [text |-> FormatWithZone(NowIn(timezone, clock))]

\* Python's None, and with it an optional argument left out
None == "None"

\* dt.timestamp() of an aware datetime, in whole seconds
UnixOf(dt) ==
    (dt.ord - UnixEpochOrd) * SecondsPerDay + SecondOfDay(dt) - dt.utcoff

\* dt.astimezone(tz): the same instant on the wall clock of zone
AsTimezone(dt, zone) == NowIn(zone, UnixOf(dt))

\* dt.strftime("%B %d, %Y at %I:%M %p %Z")
FormatHuman(dt) ==
    FormatLongDate(dt) \o " at " \o FormatClock12(dt) \o " " \o dt.tzname

ParseTimestampError(message, target_timezone) ==
    [error |-> message, iso |-> "", unix |-> "", human |-> "Error parsing timestamp",
     timezone |-> target_timezone, day_of_week |-> "", date |-> "", time |-> ""]

\* the formats of one datetime
Projection(dt, target_timezone) ==
    [iso |-> IsoFormat(dt), unix |-> ToStr(UnixOf(dt)), human |-> FormatHuman(dt),
     timezone |-> target_timezone, day_of_week |-> DayName(Weekday(dt.ord)),
     date |-> FormatDate(dt), time |-> FormatTime(dt)]

\* ParseZone with the source zone ignored
ParseZoneAlwaysTarget(source_timezone, target_timezone) == target_timezone

\* parse_tz = source_timezone or target_timezone
ParseZone(source_timezone, target_timezone) ==
    IF source_timezone \in {None, ""} THEN target_timezone ELSE source_timezone

\* parse_timestamp once the timestamp went through parse_standard_timestamp:
\* the target zone is looked up only when the datetime is to be converted
ProjectParsed(p, source_timezone, target_timezone) ==
    IF ~p.ok THEN ParseTimestampError(Reported(p), target_timezone)
    ELSE IF source_timezone \notin {None, ""} /\ source_timezone # target_timezone
    THEN (IF target_timezone \notin ValidZones
          THEN ParseTimestampError("Unexpected error: '" \o target_timezone \o "'",
                                   target_timezone)
          ELSE Projection(AsTimezone(p.dt, target_timezone), target_timezone))
    ELSE Projection(p.dt, target_timezone)

\* parse_timestamp(timestamp, source_timezone, target_timezone)
parse_timestamp(timestamp, source_timezone, target_timezone) ==
    ProjectParsed(parse_standard_timestamp(timestamp,
                                           ParseZone(source_timezone, target_timezone)),
                  source_timezone, target_timezone)

TimeOfDay(hour) ==
    IF 5 <= hour /\ hour < 9 THEN "early_morning"
    ELSE IF 9 <= hour /\ hour < 12 THEN "morning"
    ELSE IF 12 <= hour /\ hour < 17 THEN "afternoon"
    ELSE IF 17 <= hour /\ hour < 21 THEN "evening"
    ELSE "late_night"

\* is_weekend = dt.weekday() >= 5
IsWeekend(dt) == Weekday(dt.ord) >= 5

\* IsBusinessHours with the closing hour included
IsBusinessHoursThroughFive(is_weekend, hour) == ~is_weekend /\ 9 <= hour /\ hour <= 17

IsBusinessHours(is_weekend, hour) == ~is_weekend /\ 9 <= hour /\ hour < 17

TypicalActivity(hour, is_business_hours) ==
    IF 6 <= hour /\ hour < 9 THEN "commute_time"
    ELSE IF 12 <= hour /\ hour < 13 THEN "lunch_time"
    ELSE IF 17 <= hour /\ hour < 19 THEN "commute_time"
    ELSE IF 19 <= hour /\ hour < 21 THEN "dinner_time"
    ELSE IF 22 <= hour \/ hour < 6 THEN "sleeping_time"
    ELSE IF is_business_hours THEN "work_time" ELSE "leisure_time"

RelativeDay(days_diff) ==
    IF days_diff = 0 THEN "today"
    ELSE IF days_diff = -1 THEN "yesterday"
    ELSE IF days_diff = 1 THEN "tomorrow"
    ELSE None

ContextError(message) ==
    [error |-> message, time_of_day |-> "unknown", day_of_week |-> "",
     is_weekend |-> FALSE, is_business_hours |-> FALSE, hour_24 |-> 0,
     typical_activity |-> "unknown", relative_day |-> None]

ContextPayload(dt, hour, is_weekend, is_business_hours, days_diff) ==
    [time_of_day |-> TimeOfDay(hour), day_of_week |-> DayName(Weekday(dt.ord)),
     is_weekend |-> is_weekend, is_business_hours |-> is_business_hours,
     hour_24 |-> hour, typical_activity |-> TypicalActivity(hour, is_business_hours),
     relative_day |-> RelativeDay(days_diff)]

ContextOfHour(dt, hour, is_weekend, current) ==
    ContextPayload(dt, hour, is_weekend, IsBusinessHours(is_weekend, hour),
                   dt.ord - current.ord)

\* timestamp_context once the timestamp went through parse_standard_timestamp
ContextOfParsed(p, current) ==
    IF ~p.ok THEN ContextError(Reported(p))
    ELSE ContextOfHour(p.dt, HourOf(p.dt), IsWeekend(p.dt), current)

\* timestamp_context(timestamp, timezone) when the clock reads clock
timestamp_context(timestamp, timezone, clock) ==
    IF timezone \notin ValidZones
    THEN ContextError("Unexpected error: '" \o timezone \o "'")
    ELSE ContextOfParsed(parse_standard_timestamp(timestamp, timezone),
                         NowIn(timezone, clock))

----------------------------------------------------------------------------
(* The inputs the tools are called with.                                   *)

Zones == ValidZones \cup {"Invalid/Timezone"}

UnixAt(y, m, d, H, M, S) ==
    (Ymd2Ord(y, m, d) - UnixEpochOrd) * SecondsPerDay
        + H * SecondsPerHour + M * SecondsPerMinute + S

\* The readings of the clock: 12:00 and 16:00 UTC (08:00 and 12:00 in New
\* York) on 10 April 2024.
ClockReadings == {UnixAt(2024, 4, 10, 12, 0, 0), UnixAt(2024, 4, 10, 16, 0, 0)}

ClockStart == CHOOSE u \in ClockReadings : \A v \in ClockReadings : u <= v

\* Dates 32, 31, 30, 8, 7, 2 and 1 days before 10 April 2024, that day, and
\* 1, 2, 7 and 8 days after it; 10 March 2024 is the day daylight time began.
GridDates ==
    {"2024-03-09", "2024-03-10", "2024-03-11", "2024-04-02", "2024-04-03",
     "2024-04-08", "2024-04-09", "2024-04-10", "2024-04-11", "2024-04-12",
     "2024-04-17", "2024-04-18"}

\* Times an hour, a minute and a second around noon.
GridTimes ==
    {"11:00:00", "11:00:01", "11:59:00", "11:59:01", "11:59:59", "12:00:00", "12:00:01"}

GridTimestamps == {d \o " " \o t : d \in GridDates, t \in GridTimes}

\* Texts the lenient paths of the parser accept, wall times at the edges of
\* daylight time, and texts no grammar matches.
OddTimestamps ==
    {"2024-4-9 1:02:03", " 2024-04-10 ", "2024-04-10 12:00:00 EST",
     "2024-04-10 23:59:59", "2024-03-10 02:30:00", "2024-11-03 01:30:00",
     "2024-04-10 12:00:00 LONGER", "not a valid date", "Jan 1, 2024 10:00 AM",
     "2024-02-30", ""}

SinceTimestamps == GridTimestamps \cup GridDates \cup OddTimestamps

AddDates == {"2024-03-09", "2024-03-10", "2024-04-09", "2024-04-10", "2024-04-11"}

AddTimestamps == {d \o " 12:00:00" : d \in AddDates} \cup AddDates \cup OddTimestamps

DifferenceUnits == {"auto", "seconds", "minutes", "hours", "days", "weeks"}

AddUnits == {"seconds", "minutes", "hours", "days", "weeks", "years"}

\* amounts from -MaxAmount to MaxAmount in steps of 1/Den, in ticks
Amounts == (-MaxAmount * Den)..(MaxAmount * Den)

DurationHours == {0, 1, 2, 23}
DurationMinutes == {0, 1, 3, 59}
DurationSeconds == {0, 1, 4, 59}

\* durations of up to MaxDays days, of either sign, in ticks
Durations ==
    LET magnitudes ==
            {(d * SecondsPerDay + h * SecondsPerHour + m * SecondsPerMinute + sec) * Den + f :
                d \in 0..MaxDays, h \in DurationHours, m \in DurationMinutes,
                sec \in DurationSeconds, f \in 0..(Den - 1)}
    IN  magnitudes \cup {-x : x \in magnitudes}

DurationTexts == {"not a number", "3600", ""}

Styles == {"full", "compact", "minimal", "verbose"}

\* source_timezone: a zone, or left out
Sources == Zones \cup {None}

\* The days daylight time began and ended in 2024, and 10 April 2024.
ProjectDates == {"2024-03-10", "2024-04-10", "2024-11-03"}

\* Midnight, times in the hours a change of daylight time skips or repeats,
\* and times a second apart around noon.
ProjectTimes ==
    {"00:00:00", "01:30:00", "02:30:00", "03:30:00", "11:59:59", "12:00:00",
     "12:00:01", "23:59:59"}

\* what may follow a full timestamp: tokens of 1, 3, 4, 5 and 6 characters
TrailingTokens == {"Z", "EST", "ABCD", "+0530", "LONGER"}

ProjectTimestamps ==
    {d \o " " \o t : d \in ProjectDates, t \in ProjectTimes}
        \cup ProjectDates
        \cup {"2024-04-10 12:00:00 " \o token : token \in TrailingTokens}
        \cup OddTimestamps
        \cup {" not a valid date  ", "2024-04-10 12:00:00  EST"}

\* The week from Monday 8 April to Sunday 14 April 2024, every hour of it
\* at its first and at its last second.
ContextDates ==
    {"2024-04-08", "2024-04-09", "2024-04-10", "2024-04-11", "2024-04-12",
     "2024-04-13", "2024-04-14"}

ContextTimestamps ==
    {d \o " " \o Pad2(h) \o ":" \o ms : d \in ContextDates, h \in 0..23, ms \in {"00:00", "59:59"}}
        \cup ContextDates
        \cup OddTimestamps
        \cup {" not a valid date  "}

----------------------------------------------------------------------------
(* The server: a clock, and one action per tool invocation.  The tools     *)
(* keep no state between calls: an invocation is served from the idle      *)
(* state, its payload stays in ret until the client has taken it.          *)

Idle == [op |-> "none"]

Init ==
    /\ now = ClockStart
    /\ call = Idle
    /\ ret = Idle

\* time passes
Tick ==
    /\ call = Idle
    /\ \E u \in ClockReadings : u > now /\ now' = u
    /\ UNCHANGED <<call, ret>>

CallTimeDifference ==
    /\ call = Idle
    /\ \E t1 \in AddTimestamps, t2 \in AddTimestamps, unit \in DifferenceUnits, tz \in Zones :
        /\ call' = [op |-> "time_difference", timestamp1 |-> t1, timestamp2 |-> t2,
                    unit |-> unit, timezone |-> tz, clock |-> now]
        /\ ret' = time_difference(t1, t2, unit, tz)
        /\ UNCHANGED now

CallTimeSince ==
    /\ call = Idle
    /\ \E t \in SinceTimestamps, tz \in Zones :
        /\ call' = [op |-> "time_since", timestamp |-> t, timezone |-> tz, clock |-> now]
        /\ ret' = time_since(t, tz, now)
        /\ UNCHANGED now

CallAddTime ==
    /\ call = Idle
    /\ \E t \in AddTimestamps, duration \in Amounts, unit \in AddUnits, tz \in Zones :
        /\ call' = [op |-> "add_time", timestamp |-> t, duration |-> duration,
                    unit |-> unit, timezone |-> tz, clock |-> now]
        /\ ret' = add_time(t, duration, unit, tz, now)
        /\ UNCHANGED now

\* The client measures what add_time did: time_difference from the timestamp
\* it gave to the result it got back, in the same timezone.  The call keeps
\* the amount and the unit that were added.
CallDifferenceOfAdded ==
    /\ call.op = "add_time"
    /\ "error" \notin DOMAIN ret
    /\ call' = [op |-> "time_difference", timestamp1 |-> call.timestamp,
                timestamp2 |-> ret.result, unit |-> "auto",
                timezone |-> call.timezone, clock |-> now,
                added |-> [duration |-> call.duration, unit |-> call.unit]]
    /\ ret' = time_difference(call.timestamp, ret.result, "auto", call.timezone)
    /\ UNCHANGED now

CallFormatDuration ==
    /\ call = Idle
    /\ \E seconds \in {Number(x) : x \in Durations} \cup {Text(x) : x \in DurationTexts},
       style \in Styles :
        /\ call' = [op |-> "format_duration", seconds |-> seconds, style |-> style,
                    clock |-> now]
        /\ ret' = format_duration(seconds, style)
        /\ UNCHANGED now

CallCurrentDatetime ==
    /\ call = Idle
    /\ \E tz \in Zones :
        /\ call' = [op |-> "current_datetime", timezone |-> tz, clock |-> now]
        /\ ret' = current_datetime(tz, now)
        /\ UNCHANGED now

CallParseTimestamp ==
    /\ call = Idle
    /\ \E t \in ProjectTimestamps, source \in Sources, target \in Zones :
        /\ call' = [op |-> "parse_timestamp", timestamp |-> t,
                    source_timezone |-> source, target_timezone |-> target,
                    clock |-> now]
        /\ ret' = parse_timestamp(t, source, target)
        /\ UNCHANGED now

CallTimestampContext ==
    /\ call = Idle
    /\ \E t \in ContextTimestamps, tz \in Zones :
        /\ call' = [op |-> "timestamp_context", timestamp |-> t, timezone |-> tz,
                    clock |-> now]
        /\ ret' = timestamp_context(t, tz, now)
        /\ UNCHANGED now

\* the client takes the payload
Respond ==
    /\ call # Idle
    /\ call' = Idle
    /\ ret' = Idle
    /\ UNCHANGED now

Next ==
    \/ Tick
    \/ CallTimeDifference
    \/ CallTimeSince
    \/ CallAddTime
    \/ CallDifferenceOfAdded
    \/ CallFormatDuration
    \/ CallCurrentDatetime
    \/ CallParseTimestamp
    \/ CallTimestampContext
    \/ Respond

Spec == Init /\ [][Next]_vars

----------------------------------------------------------------------------
(* Reading texts back: what the properties below need to take the texts    *)
(* the tools return apart.                                                 *)

\* the least index >= i at which text t begins in s, or 0
RECURSIVE FindText(_, _, _)
FindText(s, t, i) ==
    IF i + Len(t) - 1 > Len(s) THEN 0
    ELSE IF SubSeq(s, i, i + Len(t) - 1) = t THEN i
    ELSE FindText(s, t, i + 1)

\* s.split(sep)
RECURSIVE SplitAt(_, _, _)
SplitAt(s, sep, k) ==
    IF k = 0 THEN <<s>>
    ELSE <<Sub(s, 1, k - 1)>>
            \o SplitAt(Sub(s, k + Len(sep), Len(s)), sep,
                       FindText(Sub(s, k + Len(sep), Len(s)), sep, 1))

Split(s, sep) == SplitAt(s, sep, FindText(s, sep, 1))

\* the calendar day a text beginning YYYY-MM-DD names, as a day number
OrdOfText(s) == Ymd2Ord(ToInt(Sub(s, 1, 4)), ToInt(Sub(s, 6, 7)), ToInt(Sub(s, 9, 10)))

\* a call of op was served without an error payload
Served(op) == call.op = op /\ "error" \notin DOMAIN ret

----------------------------------------------------------------------------
(* time_since: the context label.                                          *)

\* the timestamp's calendar date is now's calendar date, in the call's zone
SinceSameDate ==
    parse_standard_timestamp(call.timestamp, call.timezone).dt.ord
        = NowIn(call.timezone, call.clock).ord

\* the label the rule gives; beyond a week it is `month` under thirty days
LabelByRule(seconds, same_date, month) ==
    IF seconds < 0 THEN "in the future"
    ELSE IF Abs(seconds) < 60 * Den THEN "just now"
    ELSE IF Abs(seconds) < 3600 * Den THEN "earlier"
    ELSE IF Abs(seconds) < 86400 * Den
         THEN (IF same_date THEN "earlier today" ELSE "yesterday")
    ELSE IF Abs(seconds) < 172800 * Den THEN "yesterday"
    ELSE IF Abs(seconds) < 604800 * Den THEN "this week"
    ELSE IF Abs(seconds) < 2592000 * Den THEN month
    ELSE "a while ago"

\* C1 (as amended): for every valid timestamp and every reading of the clock,
\* time_since's context is 'in the future' if seconds < 0, otherwise by
\* |seconds|: < 60 'just now'; < 3600 'earlier'; < 86400 'earlier today' if
\* the timestamp's calendar date is now's, else 'yesterday'; < 172800
\* 'yesterday'; < 604800 'this week'; < 2592000 'this month'; and 'a while
\* ago' from 2592000 on.
C1_ContextRule ==
    Served("time_since")
        => ret.context = LabelByRule(ret.seconds, SinceSameDate, "this month")

\* C1 as stated: 'a while ago' for every value from 604800 on.
C1_ContextRuleAsStated ==
    Served("time_since")
        => ret.context = LabelByRule(ret.seconds, SinceSameDate, "a while ago")

\* a timestamp between a week and thirty days old was labelled
C1_Witness ==
    /\ Served("time_since")
    /\ ret.seconds >= 604800 * Den
    /\ ret.seconds < 2592000 * Den
    /\ ret.context = "this month"

----------------------------------------------------------------------------
(* add_time: the day part of the description.                              *)

\* the description without its ' at H:MM AM/PM' part
DayPartUpTo(description, k) == IF k = 0 THEN description ELSE Sub(description, 1, k - 1)

DayPart(description) == DayPartUpTo(description, FindText(description, " at ", 1))

\* d = (calendar date of the result) - (calendar date of now in the zone)
ResultDayOffset == OrdOfText(ret.result) - NowIn(call.timezone, call.clock).ord

LongForm(s) ==
    MonthName(ToInt(Sub(s, 6, 7))) \o " " \o Sub(s, 9, 10) \o ", " \o Sub(s, 1, 4)

\* the day part the rule gives for offset d; weekdays names the days within
\* a week by their weekday
DayPartByRule(d, weekdays) ==
    IF d = 0 THEN "today"
    ELSE IF d = 1 THEN "tomorrow"
    ELSE IF d = -1 THEN "yesterday"
    ELSE IF weekdays /\ d \in 2..7 THEN "next " \o DayName(Weekday(OrdOfText(ret.result)))
    ELSE IF weekdays /\ d \in (-7)..(-2)
         THEN "last " \o DayName(Weekday(OrdOfText(ret.result)))
    ELSE LongForm(ret.result)

\* C2 (as amended): for every valid timestamp, amount and unit, the day part
\* of add_time's description is determined by d = (calendar date of the
\* result) - (calendar date of now in the same timezone): 0 'today', +1
\* 'tomorrow', -1 'yesterday', 2..7 'next <weekday of the result>', -7..-2
\* 'last <weekday of the result>', and for every other d the long
\* month/day/year form of the result date.
C2_DayDescription ==
    Served("add_time")
        => DayPart(ret.description) = DayPartByRule(ResultDayOffset, TRUE)

\* C2 as stated: the long form for every d other than 0, +1 and -1.
C2_DayDescriptionAsStated ==
    Served("add_time")
        => DayPart(ret.description) = DayPartByRule(ResultDayOffset, FALSE)

\* a result a week after now was described by its weekday
C2_Witness ==
    /\ Served("add_time")
    /\ ResultDayOffset = 7
    /\ DayPart(ret.description) = "next Wednesday"

----------------------------------------------------------------------------
(* add_time then time_difference: the round trip.                          *)

\* the lengths of the units, in seconds
UnitLength ==
    [seconds |-> 1, minutes |-> 60, hours |-> 3600, days |-> 86400, weeks |-> 604800]

\* the difference measured is that of a result of add_time from its timestamp
RoundTrip == call.op = "time_difference" /\ "added" \in DOMAIN call

\* amount multiplied by the unit's length, in ticks
AddedTicks == call.added.duration * UnitLength[call.added.unit]

\* x rounded down to a multiple of grain
RoundedDown(x, grain) == (x \div grain) * grain

\* what the result text keeps of a time: whole seconds, or whole days when
\* the text is a date
ResultGrain == IF Len(call.timestamp2) = 10 THEN 86400 * Den ELSE Den

\* the UTC offset, in seconds, of a timestamp in the call's zone
OffsetOf(timestamp) == parse_standard_timestamp(timestamp, call.timezone).dt.utcoff

----------------------------------------------------------------------------
(* add_time: the shape of the result.                                      *)

DigitsAt(s, i, j) == AllDigits(SubSeq(s, i, j))

\* YYYY-MM-DD
IsDateText(s) ==
    /\ Len(s) = 10
    /\ DigitsAt(s, 1, 4) /\ Ch(s, 5) = "-" /\ DigitsAt(s, 6, 7)
    /\ Ch(s, 8) = "-" /\ DigitsAt(s, 9, 10)

\* YYYY-MM-DD HH:MM:SS
IsFullText(s) ==
    /\ Len(s) = 19
    /\ IsDateText(SubSeq(s, 1, 10)) /\ Ch(s, 11) = " "
    /\ DigitsAt(s, 12, 13) /\ Ch(s, 14) = ":" /\ DigitsAt(s, 15, 16)
    /\ Ch(s, 17) = ":" /\ DigitsAt(s, 18, 19)

\* H:MM AM or H:MM PM, the hour from 1 to 12 without a leading zero
IsClockAt(s, k) ==
    /\ k \in {2, 3}
    /\ Len(s) = k + 5
    /\ DigitsAt(s, 1, k - 1) /\ Ch(s, 1) # "0" /\ ToInt(SubSeq(s, 1, k - 1)) \in 1..12
    /\ DigitsAt(s, k + 1, k + 2) /\ ToInt(SubSeq(s, k + 1, k + 2)) \in 0..59
    /\ SubSeq(s, k + 3, k + 5) \in {" AM", " PM"}

IsClockText(s) == IsClockAt(s, IndexFrom(s, ":", 1))

\* the description ends ' at H:MM AM/PM'
HasClockSuffixAt(description, k) ==
    k # 0 /\ IsClockText(Sub(description, k + 4, Len(description)))

HasClockSuffix(description) ==
    HasClockSuffixAt(description, FindText(description, " at ", 1))

\* the input is in the date-only grammar
InputIsDate == StrptimeDate(Strip(call.timestamp)).ok

\* C4: add_time preserves the shape of its input: for a date-only input the
\* result text is again date-only (no HH:MM:SS part) and the description is
\* the day description alone; for a full-timestamp input the result text is
\* in the full YYYY-MM-DD HH:MM:SS grammar and the description carries the
\* ' at H:MM AM/PM' suffix.
C4_ShapePreserved ==
    Served("add_time") =>
        IF InputIsDate
        THEN /\ IsDateText(ret.result)
             /\ FindText(ret.description, " at ", 1) = 0
             /\ ~Contains(ret.description, ":")
        ELSE /\ IsFullText(ret.result)
             /\ HasClockSuffix(ret.description)

\* hours were added to a date-only input and the result is a date
C4_Witness ==
    /\ Served("add_time")
    /\ call.timestamp = "2024-04-10"
    /\ call.unit = "hours"
    /\ call.duration = -Den
    /\ ret.result = "2024-04-09"
    /\ ret.description = "yesterday"

----------------------------------------------------------------------------
(* format_duration.                                                        *)

DurationStyles == {"full", "compact", "minimal"}

\* format_duration was called with a number and one of the three styles
Formatted ==
    /\ call.op = "format_duration"
    /\ "num" \in DOMAIN call.seconds
    /\ call.style \in DurationStyles

\* floor(|seconds|) of the call
WholeSeconds == Abs(call.seconds.num) \div Den

\* the text without a leading '-'
Unsigned(text) == IF Len(text) > 0 /\ Ch(text, 1) = "-" THEN Tail(text) ELSE text

NoComponents == [days |-> 0, hours |-> 0, minutes |-> 0, secs |-> 0]

\* the component a unit word or letter names
FieldOf(word) ==
    IF word \in {"day", "days", "d"} THEN "days"
    ELSE IF word \in {"hour", "hours", "h"} THEN "hours"
    ELSE IF word \in {"minute", "minutes", "m"} THEN "minutes"
    ELSE "secs"

\* '<n> <unit>' of the full style
ReadFullPart(part, k) == [n |-> ToInt(Sub(part, 1, k - 1)), word |-> Sub(part, k + 1, Len(part))]

\* '<n><letter>' of the compact style
ReadCompactPart(part) ==
    [n |-> ToInt(Sub(part, 1, Len(part) - 1)), word |-> Ch(part, Len(part))]

ReadPart(part, style) ==
    IF style = "full" THEN ReadFullPart(part, IndexFrom(part, " ", 1))
    ELSE ReadCompactPart(part)

\* the components a list of parts names, absent ones counted as 0
RECURSIVE ReadParts(_, _)
ReadParts(parts, style) ==
    IF Len(parts) = 0 THEN NoComponents
    ELSE [ReadParts(Tail(parts), style)
            EXCEPT ![FieldOf(ReadPart(Head(parts), style).word)] =
                        @ + ReadPart(Head(parts), style).n]

\* the components the colon-separated fields name
ReadFields(fields) ==
    IF Len(fields) = 4
    THEN [days |-> ToInt(fields[1]), hours |-> ToInt(fields[2]),
          minutes |-> ToInt(fields[3]), secs |-> ToInt(fields[4])]
    ELSE IF Len(fields) = 3
    THEN [days |-> 0, hours |-> ToInt(fields[1]),
          minutes |-> ToInt(fields[2]), secs |-> ToInt(fields[3])]
    ELSE [days |-> 0, hours |-> 0,
          minutes |-> ToInt(fields[1]), secs |-> ToInt(fields[2])]

\* the components read back from a rendered text
ReadBack(text, style) ==
    IF style = "full" THEN ReadParts(Split(text, ", "), style)
    ELSE IF style = "compact" THEN ReadParts(Split(text, " "), style)
    ELSE ReadFields(Split(text, ":"))

InRanges(c) ==
    /\ c.days >= 0
    /\ c.hours \in 0..23
    /\ c.minutes \in 0..59
    /\ c.secs \in 0..59

TotalOf(c) == c.days * 86400 + c.hours * 3600 + c.minutes * 60 + c.secs

\* C5: for every numeric seconds value and each of the three styles,
\* format_duration decomposes |seconds| into days d >= 0, hours 0..23,
\* minutes 0..59 and seconds 0..59 with d*86400 + h*3600 + m*60 + s =
\* floor(|seconds|), and the components read back from the rendered text
\* (absent ones counted as 0) recover exactly floor(|seconds|).
C5_ReadBack ==
    Formatted =>
        /\ InRanges(Components(Abs(call.seconds.num)))
        /\ TotalOf(Components(Abs(call.seconds.num))) = WholeSeconds
        /\ InRanges(ReadBack(Unsigned(ret.text), call.style))
        /\ TotalOf(ReadBack(Unsigned(ret.text), call.style)) = WholeSeconds

\* a duration of more than a day, with a fraction of a second, was read back
C5_Witness ==
    /\ Formatted
    /\ call.seconds.num = (86400 + 23 * 3600 + 59 * 60 + 59) * Den + 1
    /\ call.style = "compact"
    /\ ret.text = "1d 23h 59m 59s"
    /\ ReadBack(ret.text, "compact") = [days |-> 1, hours |-> 23, minutes |-> 59, secs |-> 59]

\* the components of floor(|seconds|), by division
DaysOf(total) == total \div 86400
HoursOf(total) == (total % 86400) \div 3600
MinutesOf(total) == (total % 3600) \div 60
SecondsOf(total) == total % 60

IfListed(listed, text) == IF listed THEN <<text>> ELSE <<>>

Plural(n, unit) == ToStr(n) \o " " \o unit \o (IF n = 1 THEN "" ELSE "s")

\* the seconds are listed when non-zero, and when nothing else is
SecondsListed(total) ==
    SecondsOf(total) # 0
        \/ (DaysOf(total) = 0 /\ HoursOf(total) = 0 /\ MinutesOf(total) = 0)

ListedFull(total) ==
    IfListed(DaysOf(total) # 0, Plural(DaysOf(total), "day"))
        \o IfListed(HoursOf(total) # 0, Plural(HoursOf(total), "hour"))
        \o IfListed(MinutesOf(total) # 0, Plural(MinutesOf(total), "minute"))
        \o IfListed(SecondsListed(total), Plural(SecondsOf(total), "second"))

ListedCompact(total) ==
    IfListed(DaysOf(total) # 0, ToStr(DaysOf(total)) \o "d")
        \o IfListed(HoursOf(total) # 0, ToStr(HoursOf(total)) \o "h")
        \o IfListed(MinutesOf(total) # 0, ToStr(MinutesOf(total)) \o "m")
        \o IfListed(SecondsListed(total), ToStr(SecondsOf(total)) \o "s")

\* C6: in styles 'full' and 'compact', format_duration lists exactly the
\* non-zero components among days, hours, minutes, seconds, in that order
\* (full: '<n> <unit>', the unit pluralised unless n = 1, joined by ', ';
\* compact: '<n>' followed by d/h/m/s, joined by a space); the seconds are
\* listed although zero exactly when every other component is zero, so a
\* duration of 0 renders as '0 seconds' (full) and '0s' (compact), never as
\* an error.
C6_ListedComponents ==
    /\ (Formatted /\ call.style = "full") =>
            /\ Split(Unsigned(ret.text), ", ") = ListedFull(WholeSeconds)
            /\ WholeSeconds = 0 => Unsigned(ret.text) = "0 seconds"
    /\ (Formatted /\ call.style = "compact") =>
            /\ Split(Unsigned(ret.text), " ") = ListedCompact(WholeSeconds)
            /\ WholeSeconds = 0 => Unsigned(ret.text) = "0s"

\* a duration of 0 was rendered in the full style
C6_Witness ==
    /\ Formatted
    /\ call.seconds.num = 0
    /\ call.style = "full"
    /\ ret.text = "0 seconds"

\* the fields of the minimal style: the days only when there are any, else
\* the hours only when there are any
MinimalFields(total) ==
    IF DaysOf(total) > 0
    THEN <<DaysOf(total), HoursOf(total), MinutesOf(total), SecondsOf(total)>>
    ELSE IF HoursOf(total) > 0
    THEN <<HoursOf(total), MinutesOf(total), SecondsOf(total)>>
    ELSE <<MinutesOf(total), SecondsOf(total)>>

\* the leading field is not padded, every following one is padded to width 2
FieldsShow(fields, values) ==
    /\ Len(fields) = Len(values)
    /\ \A i \in 1..Len(fields) :
        /\ Len(fields[i]) > 0
        /\ AllDigits(fields[i])
        /\ ToInt(fields[i]) = values[i]
        /\ i = 1 => (Len(fields[i]) = 1 \/ Ch(fields[i], 1) # "0")
        /\ i > 1 => Len(fields[i]) = 2

\* C7: in style 'minimal', format_duration renders D:HH:MM:SS exactly when
\* days > 0, otherwise H:MM:SS exactly when hours > 0, otherwise M:SS; the
\* leading field is never zero-padded and every following field is
\* zero-padded to width 2.
C7_MinimalFields ==
    (Formatted /\ call.style = "minimal") =>
        FieldsShow(Split(Unsigned(ret.text), ":"), MinimalFields(WholeSeconds))

\* an hour and three minutes: the minutes after the hour are shown as '03'
C7_Witness ==
    /\ Formatted
    /\ call.style = "minimal"
    /\ call.seconds.num = (3600 + 3 * 60) * Den
    /\ ret.text = "1:03:00"

\* C8: for every seconds value x > 0 and every style, format_duration(-x,
\* style) is a single '-' followed by format_duration(x, style); the sign
\* appears once, as a leading marker, never on a component; and no
\* non-negative input produces a leading '-'.
C8_LeadingSign ==
    Formatted =>
        IF call.seconds.num < 0
        THEN /\ ret.text = "-" \o format_duration(Number(-call.seconds.num), call.style).text
             /\ Ch(ret.text, 1) = "-"
             /\ ~Contains(Tail(ret.text), "-")
        ELSE ~Contains(ret.text, "-")

\* a negative duration of several components was rendered
C8_Witness ==
    /\ Formatted
    /\ call.seconds.num = -(3600 + 60 + 1) * Den
    /\ call.style = "full"
    /\ ret.text = "-1 hour, 1 minute, 1 second"

----------------------------------------------------------------------------
(* time_difference: sign symmetry and parse failures.                     *)

\* the difference taken in the other direction
Reverse == time_difference(call.timestamp2, call.timestamp1, call.unit, call.timezone)

HasSign(text) == Len(text) > 0 /\ Ch(text, 1) = "-"

\* C9: for all valid timestamps a and b in the same timezone,
\* time_difference(a, b).seconds = -time_difference(b, a).seconds;
\* is_negative is true exactly when seconds < 0 (false in both directions
\* when a and b denote the same instant); and the two formatted texts
\* differ only by the leading '-'.
C9_SignSymmetry ==
    Served("time_difference") =>
        /\ "error" \notin DOMAIN Reverse
        /\ ret.seconds = -Reverse.seconds
        /\ ret.is_negative = (ret.seconds < 0)
        /\ Reverse.is_negative = (Reverse.seconds < 0)
        /\ HasSign(ret.formatted) = (ret.seconds < 0)
        /\ HasSign(Reverse.formatted) = (Reverse.seconds < 0)
        /\ Unsigned(ret.formatted) = Unsigned(Reverse.formatted)
        /\ ~HasSign(Unsigned(ret.formatted))

\* the second timestamp is a day and a half before the first
C9_Witness ==
    /\ Served("time_difference")
    /\ call.timestamp1 = "2024-04-10 12:00:00"
    /\ call.timestamp2 = "2024-04-09"
    /\ ret.seconds = -(86400 + 43200) * Den
    /\ ret.is_negative
    /\ ret.formatted = "-1 day, 12 hours"
    /\ Reverse.formatted = "1 day, 12 hours"

\* the timestamp does not parse in a zone that exists
Unparsable(timestamp) ==
    ~ParseStripped(Strip(timestamp), "UTC").ok

\* the labels time_since gives a timestamp that parsed
RelativeContexts ==
    {"in the future", "just now", "earlier", "earlier today", "yesterday",
     "this week", "this month", "a while ago"}

\* the message of the first input that fails
FirstFailure(timestamp1, timestamp2) ==
    InvalidFormatMessage(Strip(IF Unparsable(timestamp1) THEN timestamp1 ELSE timestamp2))

\* C10: when either timestamp fails to parse, time_difference returns that
\* parse error: an error field holding the failing input's error, seconds =
\* 0, is_negative = false and no requested_unit; time_since on an unparsable
\* timestamp likewise returns an error field with seconds = 0 and no
\* relative-time label.
C10_ParseFailure ==
    /\ (/\ call.op = "time_difference"
        /\ call.timezone \in ValidZones
        /\ Unparsable(call.timestamp1) \/ Unparsable(call.timestamp2)) =>
            /\ "error" \in DOMAIN ret
            /\ ret.error = FirstFailure(call.timestamp1, call.timestamp2)
            /\ ret.seconds = 0
            /\ ret.is_negative = FALSE
            /\ "requested_unit" \notin DOMAIN ret
    /\ (/\ call.op = "time_since"
        /\ call.timezone \in ValidZones
        /\ Unparsable(call.timestamp)) =>
            /\ "error" \in DOMAIN ret
            /\ ret.error = InvalidFormatMessage(Strip(call.timestamp))
            /\ ret.seconds = 0
            /\ ret.context \notin RelativeContexts

\* the second timestamp alone fails, and a unit was requested
C10_Witness ==
    /\ call.op = "time_difference"
    /\ call.timestamp1 = "2024-04-10 12:00:00"
    /\ call.timestamp2 = "2024-02-30"
    /\ call.unit = "hours"
    /\ call.timezone = "UTC"
    /\ ret.error = InvalidFormatMessage("2024-02-30")
    /\ ret.seconds = 0

----------------------------------------------------------------------------
(* Texts that match no grammar.                                            *)

TimestampOps ==
    {"time_difference", "time_since", "parse_timestamp", "add_time", "timestamp_context"}

\* the call gave a text that matches none of the grammars
GaveUnparsable ==
    /\ call.op \in TimestampOps
    /\ IF call.op = "time_difference"
       THEN Unparsable(call.timestamp1) \/ Unparsable(call.timestamp2)
       ELSE Unparsable(call.timestamp)

\* the first text of the call that matches no grammar
UnparsableText ==
    IF call.op # "time_difference" THEN call.timestamp
    ELSE IF Unparsable(call.timestamp1) THEN call.timestamp1
    ELSE call.timestamp2

\* the zone the call's text is parsed in
ZoneParsedIn ==
    IF call.op = "parse_timestamp"
    THEN ParseZone(call.source_timezone, call.target_timezone)
    ELSE call.timezone

Embeds(message, text) == FindText(message, text, 1) # 0

\* the message names both accepted patterns
NamesPatterns(message) ==
    /\ Embeds(message, "'YYYY-MM-DD HH:MM:SS'")
    /\ Embeds(message, "'YYYY-MM-DD'")

\* C11 (as amended): every timestamp-taking operation, given text that
\* matches none of the accepted grammars, returns a payload with an 'error'
\* field instead of raising; when the timezone the text is parsed in
\* resolves, the message embeds the text with its surrounding whitespace
\* trimmed and both accepted patterns 'YYYY-MM-DD HH:MM:SS' and
\* 'YYYY-MM-DD'.
C11_InvalidFormat ==
    GaveUnparsable =>
        /\ "error" \in DOMAIN ret
        /\ ZoneParsedIn \in ValidZones =>
            /\ Embeds(ret.error, "'" \o Strip(UnparsableText) \o "'")
            /\ NamesPatterns(ret.error)

\* C11 as stated, read for a timezone that resolves: the message embeds the
\* original text and both patterns.
C11_InvalidFormatAsStated ==
    (GaveUnparsable /\ ZoneParsedIn \in ValidZones) =>
        /\ "error" \in DOMAIN ret
        /\ Embeds(ret.error, UnparsableText)
        /\ NamesPatterns(ret.error)

\* timestamp_context was given a text that matches no grammar
C11_Witness ==
    /\ call.op = "timestamp_context"
    /\ call.timestamp = "Jan 1, 2024 10:00 AM"
    /\ call.timezone = "America/New_York"
    /\ ret.error = "Invalid timestamp format: 'Jan 1, 2024 10:00 AM'. "
                    \o "Expected format: 'YYYY-MM-DD HH:MM:SS' or 'YYYY-MM-DD'. "
                    \o "Examples: '2024-01-15 14:30:00' or '2024-01-15'"

----------------------------------------------------------------------------
(* format_duration: the kinds of error.                                    *)

\* the seconds given are a number, or a text that spells one
IsNumeric(seconds) == ToFloat(seconds).ok

\* the text reports a non-numeric duration
ReportsNotANumber(text) == Embeds(text, "Seconds must be a number")

\* the text reports an unrecognised style
ReportsInvalidStyle(text) == Embeds(text, "Invalid style")

\* C12: format_duration given a non-numeric seconds value returns an
\* invalid-duration error text, and a call with numeric seconds and a style
\* outside {full, compact, minimal} is reported as an invalid style, not as
\* a non-numeric duration.
C12_DistinctKinds ==
    call.op = "format_duration" =>
        /\ ~IsNumeric(call.seconds) => ReportsNotANumber(ret.text)
        /\ (IsNumeric(call.seconds) /\ call.style \notin DurationStyles) =>
                /\ ReportsInvalidStyle(ret.text)
                /\ ~ReportsNotANumber(ret.text)

----------------------------------------------------------------------------
(* parse_standard_timestamp: which texts share an instant.                 *)

\* parse_timestamp was served without an error payload
Projected == Served("parse_timestamp")

\* the text is accepted in the zone
Accepted(text, zone) ==
    zone \in ValidZones /\ parse_standard_timestamp(text, zone).ok

\* the instant an accepted text parses to in the zone, in Unix seconds
InstantOf(text, zone) == UnixOf(parse_standard_timestamp(text, zone).dt)

\* the canonical full text names a wall-clock time the start of daylight
\* time skips in the zone
Skipped(text, zone) ==
    /\ zone = "America/New_York"
    /\ OrdOfText(text) = DstStartOrd(ToInt(SubSeq(text, 1, 4)))
    /\ SubSeq(text, 12, 13) = "02"

\* a canonical full text that names a wall-clock time of the zone
Canonical(text, zone) == IsFullText(text) /\ Accepted(text, zone) /\ ~Skipped(text, zone)

\* C13 (as amended): for a fixed timezone, two different texts in the
\* canonical form YYYY-MM-DD HH:MM:SS never parse to the same instant,
\* unless one of them names a wall-clock time that the start of daylight
\* time skips.
C13_Injective ==
    (Projected /\ Canonical(call.timestamp, ZoneParsedIn)) =>
        \A text \in ProjectTimestamps :
            (text # call.timestamp /\ Canonical(text, ZoneParsedIn))
                => InstantOf(text, ZoneParsedIn) # ToInt(ret.unix)

\* C13 as stated: for a fixed timezone, two different accepted texts never
\* parse to the same instant.
C13_InjectiveAsStated ==
    Projected =>
        \A text \in ProjectTimestamps :
            (text # call.timestamp /\ Accepted(text, ZoneParsedIn))
                => InstantOf(text, ZoneParsedIn) # ToInt(ret.unix)

\* a canonical text a second after another was parsed
C13_Witness ==
    /\ Projected
    /\ call.timestamp = "2024-04-10 12:00:01"
    /\ ZoneParsedIn = "America/New_York"
    /\ Canonical("2024-04-10 12:00:00", ZoneParsedIn)
    /\ ret.unix = ToStr(InstantOf("2024-04-10 12:00:00", ZoneParsedIn) + 1)

----------------------------------------------------------------------------
(* timestamp_context: the classification.                                  *)

\* the activity the rule gives an hour
ActivityByRule(hour, business) ==
    IF hour \in {6, 7, 8, 17, 18} THEN "commute_time"
    ELSE IF hour = 12 THEN "lunch_time"
    ELSE IF hour \in {19, 20} THEN "dinner_time"
    ELSE IF hour >= 22 \/ hour < 6 THEN "sleeping_time"
    ELSE IF business THEN "work_time" ELSE "leisure_time"

\* the hour and the weekday reported are those the canonical text names
ReadsTheText ==
    IsFullText(call.timestamp) =>
        /\ ret.hour_24 = ToInt(SubSeq(call.timestamp, 12, 13))
        /\ ret.day_of_week = DayName(Weekday(OrdOfText(call.timestamp)))

\* C14: timestamp_context classifies every valid timestamp by its local
\* weekday and hour: is_weekend exactly for Saturday and Sunday;
\* is_business_hours exactly when it is not a weekend and 9 <= hour < 17;
\* typical_activity commute_time for hours 6-8 and 17-18, lunch_time for
\* hour 12, dinner_time for hours 19-20, sleeping_time for hour >= 22 or
\* hour < 6, and otherwise work_time if is_business_hours else
\* leisure_time; so work_time is reported only in business hours.
C14_Classification ==
    Served("timestamp_context") =>
        /\ ReadsTheText
        /\ ret.hour_24 \in 0..23
        /\ ret.is_weekend = (ret.day_of_week \in {"Saturday", "Sunday"})
        /\ ret.is_business_hours
                = (~ret.is_weekend /\ 9 <= ret.hour_24 /\ ret.hour_24 < 17)
        /\ ret.typical_activity = ActivityByRule(ret.hour_24, ret.is_business_hours)
        /\ ret.typical_activity = "work_time" => ret.is_business_hours

\* the last second of business hours on a Friday
C14_Witness ==
    /\ Served("timestamp_context")
    /\ call.timestamp = "2024-04-12 16:59:59"
    /\ ret.day_of_week = "Friday"
    /\ ret.is_business_hours
    /\ ret.typical_activity = "work_time"

----------------------------------------------------------------------------
(* parse_timestamp: the zone parsed in and the zone rendered in.           *)

\* source_timezone when it is supplied, target_timezone otherwise
SourceOrTarget ==
    IF call.source_timezone = None THEN call.target_timezone ELSE call.source_timezone

\* the instant of the reported unix value, on the wall clock of target_timezone
LocalInTarget == NowIn(call.target_timezone, ToInt(ret.unix))

\* date, time and day_of_week are the fields of the datetime dt
FieldsOf(dt) ==
    /\ ret.date = FormatDate(dt)
    /\ ret.time = FormatTime(dt)
    /\ ret.day_of_week = DayName(Weekday(dt.ord))

\* the unix value is that of the text in the zone it was parsed in, and the
\* same for every target_timezone
UnixOfTextAlone ==
    /\ ToInt(ret.unix) = InstantOf(call.timestamp, SourceOrTarget)
    /\ \A target \in ValidZones :
        parse_timestamp(call.timestamp, SourceOrTarget, target).unix = ret.unix

\* the text names a skipped wall-clock time and is rendered in the zone it
\* was parsed in
RenderedAsWritten ==
    /\ SourceOrTarget = call.target_timezone
    /\ IsFullText(call.timestamp)
    /\ Skipped(call.timestamp, SourceOrTarget)

\* C15 (as amended): parse_timestamp interprets the text in source_timezone
\* when it is supplied and in target_timezone otherwise, converting to
\* target_timezone when both are supplied and differ; the unix value
\* depends only on the text and the zone it was parsed in, and date, time
\* and day_of_week are the local fields of that instant in target_timezone,
\* except that a wall-clock time which the start of daylight time skips,
\* parsed in target_timezone itself, is rendered as it was written.
C15_Projection ==
    Projected =>
        /\ UnixOfTextAlone
        /\ IF RenderedAsWritten
           THEN /\ ret.date = SubSeq(call.timestamp, 1, 10)
                /\ ret.time = SubSeq(call.timestamp, 12, 19)
                /\ ret.day_of_week = DayName(Weekday(OrdOfText(call.timestamp)))
           ELSE FieldsOf(LocalInTarget)

\* C15 as stated: date, time and day_of_week are always the local fields of
\* the instant in target_timezone.
C15_ProjectionAsStated ==
    Projected => (UnixOfTextAlone /\ FieldsOf(LocalInTarget))

\* midnight in UTC was rendered in New York, on the day before
C15_Witness ==
    /\ Projected
    /\ call.timestamp = "2024-04-10 00:00:00"
    /\ call.source_timezone = "UTC"
    /\ call.target_timezone = "America/New_York"
    /\ ret.unix = ToStr(UnixAt(2024, 4, 10, 0, 0, 0))
    /\ ret.date = "2024-04-09"
    /\ ret.time = "20:00:00"
    /\ ret.day_of_week = "Tuesday"

----------------------------------------------------------------------------
(* time_since: the suffix of the formatted text.                           *)

EndsWith(text, suffix) ==
    /\ Len(text) >= Len(suffix)
    /\ SubSeq(text, Len(text) - Len(suffix) + 1, Len(text)) = suffix

\* what time_difference answers for the timestamp and the reading of the
\* clock that time_since took
DifferenceToNow ==
    time_difference(call.timestamp,
                    FormatFull(NowIn(call.timezone, call.clock)),
                    "auto", call.timezone)

\* C16: for every valid timestamp, time_since's formatted text is the
\* formatted text of time_difference(timestamp, now) followed by ' ago' when
\* seconds >= 0 and by ' from now' when seconds < 0, and the suffix
\* ' from now' appears exactly when the context is 'in the future'.
C16_Suffix ==
    Served("time_since") =>
        /\ ret.seconds >= 0 => ret.formatted = DifferenceToNow.formatted \o " ago"
        /\ ret.seconds < 0 => ret.formatted = DifferenceToNow.formatted \o " from now"
        /\ EndsWith(ret.formatted, " from now") <=> ret.context = "in the future"

\* a timestamp a day ahead of the clock
C16_Witness ==
    /\ Served("time_since")
    /\ call.timestamp = "2024-04-11 12:00:00"
    /\ call.timezone = "UTC"
    /\ call.clock = UnixAt(2024, 4, 10, 12, 0, 0)
    /\ ret.formatted = "-1 day from now"
    /\ ret.context = "in the future"

----------------------------------------------------------------------------
(* time_difference and format_duration: the two formatters.                *)

\* C17: for all valid timestamps a and b, the formatted text returned by
\* time_difference(a, b) is the text format_duration returns for its seconds
\* in style 'full', with one leading '-' for a negative difference and
\* '0 seconds' for none.
C17_SameFormatter ==
    Served("time_difference") =>
        /\ ret.formatted = format_duration(Number(ret.seconds), "full").text
        /\ ret.seconds < 0 =>
            /\ Head(ret.formatted) = "-"
            /\ ~HasSign(Tail(ret.formatted))
        /\ ret.seconds >= 0 => ~HasSign(ret.formatted)
        /\ ret.seconds = 0 => ret.formatted = "0 seconds"

\* a day back, a negative difference
C17_Witness ==
    /\ Served("time_difference")
    /\ call.timestamp1 = "2024-04-10 12:00:00"
    /\ call.timestamp2 = "2024-04-09 12:00:00"
    /\ call.timezone = "UTC"
    /\ ret.seconds = -(SecondsPerDay * Den)
    /\ ret.formatted = "-1 day"
    /\ format_duration(Number(ret.seconds), "full").text = "-1 day"

----------------------------------------------------------------------------
(* Unknown timezone names.                                                 *)

\* the error the payload carries, "" when it carries none
ErrorOf(payload) ==
    IF "error" \in DOMAIN payload THEN payload.error
    ELSE IF "text" \in DOMAIN payload THEN payload.text
    ELSE ""

\* the payload reports the timezone name zone as unknown: an error that
\* quotes the name and is not the 'Invalid timestamp format' error
ReportsUnknownTimezone(payload, zone) ==
    /\ DOMAIN payload \cap {"error", "text"} # {}
    /\ Embeds(ErrorOf(payload), "'" \o zone \o "'")
    /\ ~Embeds(ErrorOf(payload), "Invalid timestamp format")
    /\ IF call.op = "current_datetime"
       THEN Embeds(payload.text, "Error: Unknown timezone")
       ELSE payload.error = "Unexpected error: '" \o zone \o "'"

\* the timezone names the call gave
ZonesGiven ==
    IF call.op = "parse_timestamp"
    THEN {call.source_timezone, call.target_timezone} \ {None}
    ELSE IF call.op \in TimestampOps \cup {"current_datetime"}
    THEN {call.timezone}
    ELSE {}

\* the name the call parses its text in (reads the clock in, for
\* current_datetime), when the call has one
ZoneToResolve ==
    IF call.op = "parse_timestamp" THEN SourceOrTarget ELSE call.timezone

\* C18 (as amended): an unknown timezone name is reported as an error
\* distinct from InvalidFormat, and the timezone the text is parsed in is
\* resolved before grammar matching: when that name is unresolvable the
\* error is the unknown-timezone error whether or not the text matches a
\* grammar, never 'Invalid timestamp format'.  parse_timestamp resolves a
\* target_timezone other than the zone it parses in only after parsing: with
\* a resolvable source_timezone and an unresolvable target_timezone it
\* reports the unknown timezone when the text matches a grammar and
\* 'Invalid timestamp format' when it matches none.
C18_UnknownTimezone ==
    /\ (call.op \in TimestampOps \cup {"current_datetime"}
            /\ ZoneToResolve \notin ValidZones)
        => ReportsUnknownTimezone(ret, ZoneToResolve)
    /\ (call.op = "parse_timestamp"
            /\ SourceOrTarget \in ValidZones
            /\ call.target_timezone \notin ValidZones)
        => IF Unparsable(call.timestamp)
           THEN ret.error = InvalidFormatMessage(Strip(call.timestamp))
           ELSE ReportsUnknownTimezone(ret, call.target_timezone)

\* C18 as stated: for every operation, an unresolvable timezone name is
\* reported as the unknown-timezone error and never as 'Invalid timestamp
\* format'.
C18_UnknownTimezoneAsStated ==
    \A zone \in ZonesGiven \ ValidZones : ReportsUnknownTimezone(ret, zone)

\* time_difference was given an unknown timezone and a text no grammar
\* matches
C18_Witness ==
    /\ call.op = "time_difference"
    /\ call.timezone = "Invalid/Timezone"
    /\ Unparsable(call.timestamp1)
    /\ ret.error = "Unexpected error: 'Invalid/Timezone'"

----------------------------------------------------------------------------
(* The lenient grammar: a trailing token.                                  *)

\* the tokens of the text, split at single spaces
Tokens == Split(call.timestamp, " ")

\* the text is '<date> <time> <token>' with YYYY-MM-DD HH:MM:SS before the
\* token
HasTrailingToken ==
    /\ Len(Tokens) = 3
    /\ Len(Tokens[3]) > 0
    /\ IsFullText(Tokens[1] \o " " \o Tokens[2])

\* what parse_timestamp answers for the text without its trailing token
WithoutToken ==
    parse_timestamp(Tokens[1] \o " " \o Tokens[2],
                    call.source_timezone, call.target_timezone)

\* the call is parse_timestamp with timezone names that resolve
ParsedInKnownZones ==
    /\ call.op = "parse_timestamp"
    /\ SourceOrTarget \in ValidZones
    /\ call.target_timezone \in ValidZones

\* the payload is the 'Invalid timestamp format' error, with no instant
IsInvalidFormat(payload) ==
    /\ "error" \in DOMAIN payload
    /\ Embeds(payload.error, "Invalid timestamp format")
    /\ payload.unix = ""
    /\ payload.iso = ""

\* C19: text of the form '<date> <time> <token>' whose trailing token has at
\* most 4 characters and whose first two tokens match YYYY-MM-DD HH:MM:SS
\* parses to the instant of '<date> <time>' in the caller's timezone,
\* whatever the token is; with a trailing token longer than 4 characters,
\* and for any other text matching no grammar, parsing fails with
\* InvalidFormat and yields no instant.
C19_TrailingToken ==
    ParsedInKnownZones =>
        /\ (HasTrailingToken /\ Len(Tokens[3]) <= 4) =>
            /\ "error" \notin DOMAIN ret
            /\ "error" \notin DOMAIN WithoutToken
            /\ ret.unix = WithoutToken.unix
            /\ ret.iso = WithoutToken.iso
        /\ (HasTrailingToken /\ Len(Tokens[3]) > 4) => IsInvalidFormat(ret)
        /\ Unparsable(call.timestamp) => IsInvalidFormat(ret)

\* a token of exactly 4 characters was dropped
C19_Witness ==
    /\ ParsedInKnownZones
    /\ call.timestamp = "2024-04-10 12:00:00 ABCD"
    /\ call.source_timezone = None
    /\ call.target_timezone = "UTC"
    /\ ret.unix = ToStr(UnixAt(2024, 4, 10, 12, 0, 0))

=============================================================================
